---- MODULE Spec2Model ----
(***************************************************************************)
(* Model of the @smounters/fsm engine: class FSM (fsm.ts), the handler     *)
(* and transition types (types.ts) and the transition helpers              *)
(* (helpers.ts).                                                           *)
(*                                                                         *)
(* One FSM instance, one consumer.  run() is an async generator: its body  *)
(* is cut at its suspension points (the three awaits of the try block, the *)
(* yield, the await of the catch block); every action below is one         *)
(* synchronous segment between two suspension points, which JavaScript     *)
(* executes atomically.  The consumer pulls (next()), may close the        *)
(* generator (return()), and calls the synchronous operations of the class *)
(* while no step is in flight (the caller obligation of the engine).       *)
(*                                                                         *)
(* State identifiers are strings; "" stands for the falsy identifiers of   *)
(* the domain string | number | symbol (the empty string and the number 0  *)
(* are both falsy under ToBoolean, which is all the engine applies to      *)
(* them).  Events are represented by their type tag.  Contexts are small   *)
(* integers.                                                               *)
(***************************************************************************)
EXTENDS Integers, Sequences, FiniteSets, TLC

\* ---------------------------------------------------------------- bounds
MaxSteps == 3      \* steps one run may begin
MaxCtx   == 1      \* contexts are 0..MaxCtx
MaxAux   == 1      \* mutating auxiliary calls (setState, updateContext, reset)

\* ---------------------------------------------------------------- domains
NULL     == "null"                       \* the null of S | null
StateIds == {"", "idle", "loading", "success"}
Events   == {"go", "done", "complete"}
Errors   == {"E1", "E2"}
Contexts == 0..MaxCtx
NoEvent  == "-"
NoError  == "-"
Undefined == -1                          \* an omitted newContext argument
NullContext == -2                        \* null, where the context type C admits it

VARIABLES
  states,        \* this.states: the state map given to the constructor
  context,       \* this.context
  currentState,  \* this.currentState
  pc,            \* position of the generator returned by run()
  stateHandler,  \* const stateHandler of the loop body (key of the handler)
  result,        \* const result of the loop body: [event, context]
  error,         \* the error bound by catch (error)
  thrown,        \* the failure the consumer received from next(), and
                 \* whether the catch block or onError raised it
  events,        \* the events the consumer received in this run
  trace,         \* what the engine did in this run, in order
  steps,         \* loop iterations begun in this run
  pulls,         \* calls of next() on the generator of this run
  aux,           \* mutating auxiliary calls made
  last           \* the consumer's latest synchronous call on the machine since
                 \* the generator last moved: its arguments or what it returned

engine == <<states, context, currentState, pc, stateHandler, result, error,
            thrown, events, trace, steps, pulls, aux>>

vars == <<engine, last>>

\* ------------------------------------------------------- helpers.ts
\* A transition function is represented by the description of the helper
\* call that built it; Resolve applies it.
\* transitionTo that drops its argument: () => null
transitionToNothing(nextState) ==
  [kind |-> "transitionTo", target |-> NULL, conditions |-> <<>>,
   eventMap |-> {}]

transitionTo(nextState) ==
  [kind |-> "transitionTo", target |-> nextState, conditions |-> <<>>,
   eventMap |-> {}]

finalTransition ==
  [kind |-> "final", target |-> NULL, conditions |-> <<>>, eventMap |-> {}]

conditionalTransition(conditions, defaultState) ==
  [kind |-> "conditional", target |-> defaultState, conditions |-> conditions,
   eventMap |-> {}]

eventBasedTransition(eventMap) ==
  [kind |-> "eventBased", target |-> NULL, conditions |-> <<>>,
   eventMap |-> eventMap]

\* ToBoolean on a state identifier or null
Truthy(s) == s # NULL /\ s # ""

\* The predicates used as `when` in the modelled state maps
When(p, event, ctx) ==
  CASE p = "never"       -> FALSE
    [] p = "always"      -> TRUE
    [] p = "isGo"        -> event = "go"
    [] p = "isDone"      -> event = "done"
    [] p = "ctxPositive" -> ctx > 0

\* conditionalTransition whose loop does not return at the first match: the
\* last condition that holds wins.
LastMatch(conditions, i, event, ctx, defaultState) ==
  LET m == {j \in i..Len(conditions) : When(conditions[j].when, event, ctx)}
  IN  IF m = {} THEN defaultState
      ELSE conditions[CHOOSE j \in m : \A k \in m : k <= j].then

\* for (const condition of conditions) if (condition.when(event, context))
\* return condition.then; return defaultState
RECURSIVE FirstMatch(_, _, _, _, _)
FirstMatch(conditions, i, event, ctx, defaultState) ==
  IF i > Len(conditions) THEN defaultState
  ELSE IF When(conditions[i].when, event, ctx) THEN conditions[i].then
  ELSE FirstMatch(conditions, i + 1, event, ctx, defaultState)

\* eventMap[event.type] || null
EventLookup(eventMap, event) ==
  IF \E p \in eventMap : p[1] = event
  THEN LET v == (CHOOSE p \in eventMap : p[1] = event)[2]
       IN  IF Truthy(v) THEN v ELSE NULL
  ELSE NULL

Resolve(t, event, ctx) ==
  CASE t.kind = "transitionTo" -> t.target
    [] t.kind = "final"        -> NULL
    [] t.kind = "conditional"  -> FirstMatch(t.conditions, 1, event, ctx, t.target)
    [] t.kind = "eventBased"   -> EventLookup(t.eventMap, event)

\* createState(execute, transition, options): execute yields `event` and the
\* context advanced by `add`; the options say which hooks are present.
createState(event, add, transition, onEnter, onExit, onError) ==
  [event |-> event, add |-> add, transition |-> transition,
   onEnter |-> onEnter, onExit |-> onExit, onError |-> onError]

\* execute(context) of a handler: the FSMStateResult it resolves to
Execute(h, ctx) == [event |-> h.event, context |-> (ctx + h.add) % (MaxCtx + 1)]

\* ------------------------------------------------------- the state maps
\* Which optional hooks the handlers of a map carry: <<onEnter, onExit, onError>>
HookSets == {<<FALSE, FALSE, FALSE>>, <<TRUE, TRUE, TRUE>>,
             <<TRUE, FALSE, TRUE>>, <<FALSE, TRUE, FALSE>>}

\* idle -> loading -> success, success mapped with finalTransition
\* (the API request flow of the README, Scenario 1 of the specification)
Scenario1(h) ==
  [s \in {"idle", "loading", "success"} |->
     CASE s = "idle"    -> createState("go", 1, transitionTo("loading"), h[1], h[2], h[3])
       [] s = "loading" -> createState("done", 1, transitionTo("success"), h[1], h[2], h[3])
       [] s = "success" -> createState("complete", 0, finalTransition, h[1], h[2], h[3])]

\* the Quick Start of the package documentation: "success" has no handler
QuickStart(h) ==
  [s \in {"idle", "loading"} |->
     CASE s = "idle"    -> createState("go", 0, transitionTo("loading"), h[1], h[2], h[3])
       [] s = "loading" -> createState("done", 1,
                             conditionalTransition(
                               <<[when |-> "isGo", then |-> "idle"],
                                 [when |-> "isDone", then |-> "success"]>>, NULL),
                             h[1], h[2], h[3])]

\* a map with a handler under a falsy identifier
FalsyKey(h) ==
  [s \in {"idle", ""} |->
     CASE s = "idle" -> createState("go", 1, eventBasedTransition({<<"go", "">>}), h[1], h[2], h[3])
       [] s = ""     -> createState("done", 0, finalTransition, h[1], h[2], h[3])]

\* the UI flow of the README: a cycle that never terminates by itself
Cycle(h) ==
  [s \in {"idle", "loading"} |->
     CASE s = "idle"    -> createState("go", 1, eventBasedTransition({<<"go", "loading">>}), h[1], h[2], h[3])
       [] s = "loading" -> createState("done", 0, transitionTo("idle"), h[1], h[2], h[3])]

\* every state routed by conditionalTransition: several conditions that hold
\* at once (idle), none that holds and no default (loading, Scenario 2 of the
\* specification), none that holds and a declared default (success)
Branching(h) ==
  [s \in {"idle", "loading", "success"} |->
     CASE s = "idle"    -> createState("go", 1,
                             conditionalTransition(
                               <<[when |-> "ctxPositive", then |-> "loading"],
                                 [when |-> "isGo", then |-> "success"],
                                 [when |-> "always", then |-> "idle"]>>, NULL),
                             h[1], h[2], h[3])
       [] s = "loading" -> createState("done", 0,
                             conditionalTransition(
                               <<[when |-> "never", then |-> "idle"],
                                 [when |-> "isGo", then |-> "success"]>>, NULL),
                             h[1], h[2], h[3])
       [] s = "success" -> createState("complete", 0,
                             conditionalTransition(
                               <<[when |-> "isGo", then |-> "idle"]>>, "loading"),
                             h[1], h[2], h[3])]

StateMaps == UNION {{Scenario1(h), QuickStart(h), FalsyKey(h), Cycle(h), Branching(h)}
                    : h \in HookSets}

\* ------------------------------------------------------- the engine
\* One entry of the trace: what the engine did, for which handler, with which
\* arguments.
Did(op, s, ev, c, e) == [op |-> op, state |-> s, event |-> ev, ctx |-> c, err |-> e]

NoResult == [event |-> NoEvent, context |-> 0]
NoThrow  == [err |-> NoError, from |-> "-"]

\* A call of a synchronous method: op is the method; fn, ctx and state are its
\* arguments (setState, updateContext, reset, isInState) or, for a getter,
\* state, ctx, bool or keys is what it returned.
Call(op, fn, c, s, b, k) ==
  [op |-> op, fn |-> fn, ctx |-> c, state |-> s, bool |-> b, keys |-> k]

NoCall == Call("none", "-", Undefined, NULL, FALSE, {})

\* new FSM(initialContext, initialState, states)
Init ==
  /\ states \in StateMaps
  /\ context \in Contexts
  /\ currentState \in {"idle", "", "success"}
  /\ pc = "none"
  /\ stateHandler = NULL
  /\ result = NoResult
  /\ error = NoError
  /\ thrown = NoThrow
  /\ events = <<>>
  /\ trace = <<>>
  /\ steps = 0
  /\ pulls = 0
  /\ aux = 0
  /\ last = NoCall

\* this.currentState && this.states[this.currentState]
LoopCond(s) == Truthy(s) /\ s \in DOMAIN states

\* The head of the loop, with s the value of this.currentState, tr the trace
\* so far and n the iterations begun so far: leave the loop (the generator
\* returns), or bind stateHandler, call onEnter?.(this.context) and suspend
\* on its await.
LoopHead(s, tr, n) ==
  IF LoopCond(s)
  THEN /\ n < MaxSteps
       /\ steps' = n + 1
       /\ stateHandler' = s
       /\ trace' = IF states[s].onEnter
                   THEN Append(tr, Did("onEnter", s, NoEvent, context, NoError))
                   ELSE tr
       /\ pc' = "onEnter"
  ELSE /\ steps' = n
       /\ stateHandler' = IF n = 0 THEN NULL ELSE stateHandler
       /\ trace' = tr
       /\ pc' = "done"

\* Catch that hands onError the context the step started with instead of
\* this.context: stale once execute's context is committed.
CatchStale(e, tr) ==
  /\ error' = e
  /\ trace' = IF states[stateHandler].onError
              THEN Append(tr, Did("onError", stateHandler, NoEvent,
                                  IF pc = "onExit" THEN (context + MaxCtx + 1 - states[stateHandler].add) % (MaxCtx + 1)
                                  ELSE context, e))
              ELSE tr
  /\ pc' = "onError"

\* catch (error): call stateHandler.onError?.(error, this.context) and suspend
\* on its await.
Catch(e, tr) ==
  /\ error' = e
  /\ trace' = IF states[stateHandler].onError
              THEN Append(tr, Did("onError", stateHandler, NoEvent, context, e))
              ELSE tr
  /\ pc' = "onError"

\* fsm.run(): creates the generator; nothing of its body runs yet, and what
\* the previous run left behind is still there to be looked at.
Run ==
  /\ pc \in {"none", "done", "failed", "closed"}
  /\ pc' = "start"
  /\ UNCHANGED <<states, context, currentState, stateHandler, result, error,
                 thrown, events, trace, steps, pulls, aux>>

\* PullStart of an engine that validates the initial state: the first next()
\* fails when the current state has no handler.
PullStartValidating ==
  /\ pc = "start"
  /\ pulls' = 1
  /\ result' = NoResult
  /\ error' = NoError
  /\ events' = <<>>
  /\ IF currentState \in DOMAIN states
     THEN thrown' = NoThrow /\ LoopHead(currentState, <<>>, 0)
     ELSE /\ thrown' = [err |-> "E1", from |-> "catch"]
          /\ pc' = "failed"
          /\ trace' = <<>>
          /\ steps' = 0
          /\ stateHandler' = NULL
  /\ UNCHANGED <<states, context, currentState, aux>>

\* The consumer's first next(): the body runs from its top, with fresh locals.
PullStart ==
  /\ pc = "start"
  /\ pulls' = 1
  /\ result' = NoResult
  /\ error' = NoError
  /\ thrown' = NoThrow
  /\ events' = <<>>
  /\ LoopHead(currentState, <<>>, 0)
  /\ UNCHANGED <<states, context, currentState, aux>>

\* PullNext that tests the loop on the transition's result but never stores
\* it in this.currentState.
PullNextUnassigned ==
  /\ pc = "yielded"
  /\ pulls' = pulls + 1
  /\ LET next == Resolve(states[stateHandler].transition, result.event, context)
         tr   == trace \o <<Did("transition", stateHandler, result.event, context, NoError),
                            Did("assign", next, NoEvent, context, NoError)>>
     IN  LoopHead(next, tr, steps)
  /\ UNCHANGED <<states, context, currentState, result, error, thrown, events, aux>>

\* PullNext that evaluates the transition and drops the result: the loop goes
\* round on the state it was in.
PullNextStays ==
  /\ pc = "yielded"
  /\ pulls' = pulls + 1
  /\ LET tr == trace \o <<Did("transition", stateHandler, result.event, context, NoError),
                          Did("assign", currentState, NoEvent, context, NoError)>>
     IN  LoopHead(currentState, tr, steps)
  /\ UNCHANGED <<states, context, currentState, result, error, thrown, events, aux>>

\* PullNext that honours a state forced during the hand-off: when the current
\* state is no longer the handler's, the loop goes on from it and the
\* transition's result is dropped.
PullNextKeepsForced ==
  /\ pc = "yielded"
  /\ pulls' = pulls + 1
  /\ LET to   == Resolve(states[stateHandler].transition, result.event, context)
         next == IF currentState # stateHandler THEN currentState ELSE to
         tr   == trace \o <<Did("transition", stateHandler, result.event, context, NoError),
                            Did("assign", next, NoEvent, context, NoError)>>
     IN  /\ currentState' = next
         /\ LoopHead(next, tr, steps)
  /\ UNCHANGED <<states, context, result, error, thrown, events, aux>>

\* The consumer's next() after an event: the generator resumes after the
\* yield, evaluates the transition, assigns the state and tests the loop.
PullNext ==
  /\ pc = "yielded"
  /\ pulls' = pulls + 1
  /\ LET next == Resolve(states[stateHandler].transition, result.event, context)
         tr   == trace \o <<Did("transition", stateHandler, result.event, context, NoError),
                            Did("assign", next, NoEvent, context, NoError)>>
     IN  /\ currentState' = next
         /\ LoopHead(next, tr, steps)
  /\ UNCHANGED <<states, context, result, error, thrown, events, aux>>

\* run() with the transition evaluated outside the try block: its failure
\* reaches the consumer without onError.
PullThrowUncaught ==
  /\ pc = "yielded"
  /\ pulls' = pulls + 1
  /\ \E e \in Errors :
       /\ error' = e
       /\ thrown' = [err |-> e, from |-> "catch"]
  /\ trace' = Append(trace, Did("transition", stateHandler, result.event, context, NoError))
  /\ pc' = "failed"
  /\ UNCHANGED <<states, context, currentState, stateHandler, result,
                 events, steps, aux>>

\* The consumer's next() after an event, when the transition function throws.
PullThrow ==
  /\ pc = "yielded"
  /\ pulls' = pulls + 1
  /\ \E e \in Errors :
       Catch(e, Append(trace, Did("transition", stateHandler, result.event, context, NoError)))
  /\ UNCHANGED <<states, context, currentState, stateHandler, result, thrown,
                 events, steps, aux>>

\* await onEnter resolves: call execute(this.context) and suspend on its await.
\* result holds what the pending execute will resolve to.
OnEnterReturn ==
  /\ pc = "onEnter"
  /\ result' = Execute(states[stateHandler], context)
  /\ trace' = Append(trace, Did("execute", stateHandler, NoEvent, context, NoError))
  /\ pc' = "execute"
  /\ UNCHANGED <<states, context, currentState, stateHandler, error, thrown,
                 events, steps, pulls, aux>>

\* onEnter throws or rejects.
OnEnterThrow ==
  /\ pc = "onEnter"
  /\ states[stateHandler].onEnter
  /\ \E e \in Errors : Catch(e, trace)
  /\ UNCHANGED <<states, context, currentState, stateHandler, result, thrown,
                 events, steps, pulls, aux>>

\* ExecuteReturn with the two statements exchanged: onExit is called with the
\* context of before the commit, and the commit follows.
ExecuteReturnSwapped ==
  /\ pc = "execute"
  /\ context' = result.context
  /\ trace' = trace \o (IF states[stateHandler].onExit
                        THEN <<Did("onExit", stateHandler, result.event, context, NoError)>>
                        ELSE <<>>)
                    \o <<Did("commit", stateHandler, NoEvent, result.context, NoError)>>
  /\ pc' = "onExit"
  /\ UNCHANGED <<states, currentState, stateHandler, result, error, thrown,
                 events, steps, pulls, aux>>

\* await execute resolves: this.context = result.context, then call
\* onExit?.(result.event, this.context) and suspend on its await.
ExecuteReturn ==
  /\ pc = "execute"
  /\ context' = result.context
  /\ trace' = trace \o <<Did("commit", stateHandler, NoEvent, result.context, NoError)>>
                    \o (IF states[stateHandler].onExit
                        THEN <<Did("onExit", stateHandler, result.event, context', NoError)>>
                        ELSE <<>>)
  /\ pc' = "onExit"
  /\ UNCHANGED <<states, currentState, stateHandler, result, error, thrown,
                 events, steps, pulls, aux>>

\* execute throws or rejects: there is no result.
ExecuteThrow ==
  /\ pc = "execute"
  /\ \E e \in Errors : Catch(e, trace)
  /\ result' = NoResult
  /\ UNCHANGED <<states, context, currentState, stateHandler, thrown,
                 events, steps, pulls, aux>>

\* OnExitReturn that does not wait for the consumer: the transition is
\* evaluated and the state assigned right after the event is handed over.
OnExitReturnEager ==
  /\ pc = "onExit"
  /\ events' = Append(events, result.event)
  /\ LET next == Resolve(states[stateHandler].transition, result.event, context)
     IN  /\ trace' = trace \o <<Did("emit", stateHandler, result.event, context, NoError),
                                Did("transition", stateHandler, result.event, context, NoError),
                                Did("assign", next, NoEvent, context, NoError)>>
         /\ currentState' = next
  /\ pc' = "yielded"
  /\ UNCHANGED <<states, context, stateHandler, result, error,
                 thrown, steps, pulls, aux>>

\* await onExit resolves: yield result.event.
OnExitReturn ==
  /\ pc = "onExit"
  /\ events' = Append(events, result.event)
  /\ trace' = Append(trace, Did("emit", stateHandler, result.event, context, NoError))
  /\ pc' = "yielded"
  /\ UNCHANGED <<states, context, currentState, stateHandler, result, error,
                 thrown, steps, pulls, aux>>

\* OnExitThrow that has already handed the event over when onExit fails
\* (the yield placed before the call of onExit).
OnExitThrowEmits ==
  /\ pc = "onExit"
  /\ states[stateHandler].onExit
  /\ events' = Append(events, result.event)
  /\ \E e \in Errors : Catch(e, trace)
  /\ UNCHANGED <<states, context, currentState, stateHandler, result, thrown,
                 steps, pulls, aux>>

\* onExit throws or rejects.
OnExitThrow ==
  /\ pc = "onExit"
  /\ states[stateHandler].onExit
  /\ \E e \in Errors : Catch(e, trace)
  /\ UNCHANGED <<states, context, currentState, stateHandler, result, thrown,
                 events, steps, pulls, aux>>

\* OnErrorReturn that retries the step instead of throwing.
OnErrorRetry ==
  /\ pc = "onError"
  /\ trace' = IF states[stateHandler].onEnter
              THEN Append(trace, Did("onEnter", stateHandler, NoEvent, context, NoError))
              ELSE trace
  /\ pc' = "onEnter"
  /\ UNCHANGED <<states, context, currentState, stateHandler, result, error,
                 thrown, events, steps, pulls, aux>>

\* await onError resolves: throw error.
OnErrorReturn ==
  /\ pc = "onError"
  /\ thrown' = [err |-> error, from |-> "catch"]
  /\ pc' = "failed"
  /\ UNCHANGED <<states, context, currentState, stateHandler, result, error,
                 events, trace, steps, pulls, aux>>

\* A catch block that guards onError as well: when onError throws, it is
\* called again with the failure it raised.
OnErrorThrowAgain ==
  /\ pc = "onError"
  /\ states[stateHandler].onError
  /\ \E e \in Errors :
       /\ e # error
       /\ trace' = Append(trace, Did("onError", stateHandler, NoEvent, context, e))
       /\ thrown' = [err |-> e, from |-> "onError"]
  /\ pc' = "failed"
  /\ UNCHANGED <<states, context, currentState, stateHandler, result, error,
                 events, steps, pulls, aux>>

\* onError itself throws or rejects: that failure leaves the catch block.
OnErrorThrow ==
  /\ pc = "onError"
  /\ states[stateHandler].onError
  /\ \E e \in Errors : e # error /\ thrown' = [err |-> e, from |-> "onError"]
  /\ pc' = "failed"
  /\ UNCHANGED <<states, context, currentState, stateHandler, result, error,
                 events, trace, steps, pulls, aux>>

\* run() with the transition and the assignment in a finally block: closing
\* the generator at the yield still moves the machine on.
CloseAdvancing ==
  /\ pc \in {"start", "yielded"}
  /\ pc' = "closed"
  /\ IF pc = "yielded"
     THEN LET next == Resolve(states[stateHandler].transition, result.event, context)
          IN  /\ currentState' = next
              /\ trace' = trace \o <<Did("transition", stateHandler, result.event, context, NoError),
                                     Did("assign", next, NoEvent, context, NoError)>>
     ELSE UNCHANGED <<currentState, trace>>
  /\ UNCHANGED <<states, context, stateHandler, result, error,
                 thrown, events, steps, pulls, aux>>

\* The consumer leaves the for await loop early: return() on the generator
\* suspended at its start or at the yield.
Close ==
  /\ pc \in {"start", "yielded"}
  /\ pc' = "closed"
  /\ UNCHANGED <<states, context, currentState, stateHandler, result, error,
                 thrown, events, trace, steps, pulls, aux>>

\* ------------------------------------------------------- auxiliary operations
\* The synchronous operations are called while no step is in flight.
Quiescent == pc \in {"none", "start", "yielded", "done", "failed", "closed"}

\* setState that enters the new state: it calls the onEnter hook of `state`.
SetStateEntering(state) ==
  /\ Quiescent /\ aux < MaxAux
  /\ currentState' = state
  /\ aux' = aux + 1
  /\ trace' = IF state \in DOMAIN states /\ states[state].onEnter
              THEN Append(trace, Did("onEnter", state, NoEvent, context, NoError))
              ELSE trace
  /\ UNCHANGED <<states, context, pc, stateHandler, result, error, thrown,
                 events, steps, pulls>>

\* this.currentState = state
SetState(state) ==
  /\ Quiescent /\ aux < MaxAux
  /\ currentState' = state
  /\ aux' = aux + 1
  /\ UNCHANGED <<states, context, pc, stateHandler, result, error, thrown,
                 events, trace, steps, pulls>>

\* the updater functions the consumer passes
Updater(f, c) ==
  CASE f = "identity" -> c
    [] f = "next"     -> (c + 1) % (MaxCtx + 1)

\* updateContext that tells the current state of the new context by calling
\* its onEnter hook again.
UpdateContextEntering(updater) ==
  /\ Quiescent /\ aux < MaxAux
  /\ context' = Updater(updater, context)
  /\ aux' = aux + 1
  /\ trace' = IF currentState \in DOMAIN states /\ states[currentState].onEnter
              THEN Append(trace, Did("onEnter", currentState, NoEvent, context', NoError))
              ELSE trace
  /\ UNCHANGED <<states, currentState, pc, stateHandler, result, error, thrown,
                 events, steps, pulls>>

\* this.context = updater(this.context)
UpdateContext(updater) ==
  /\ Quiescent /\ aux < MaxAux
  /\ context' = Updater(updater, context)
  /\ aux' = aux + 1
  /\ UNCHANGED <<states, currentState, pc, stateHandler, result, error, thrown,
                 events, trace, steps, pulls>>

\* The arguments the consumer passes to reset: newContext omitted, null or a
\* context; newState omitted or a state, a falsy one included.
ResetContexts == {Undefined, NullContext, 0}
ResetStates   == {NULL, "idle", ""}

\* newContext ?? this.context ; newState ?? this.currentState
\* (?? takes its right operand when the left one is undefined or null)
Reset(newContext, newState) ==
  /\ Quiescent /\ aux < MaxAux
  /\ context' = IF newContext \in {Undefined, NullContext} THEN context ELSE newContext
  /\ currentState' = IF newState = NULL THEN currentState ELSE newState
  /\ aux' = aux + 1
  /\ UNCHANGED <<states, pc, stateHandler, result, error, thrown,
                 events, trace, steps, pulls>>

\* return this.currentState
GetCurrentState ==
  /\ Quiescent
  /\ last' = Call("getCurrentState", "-", Undefined, currentState, FALSE, {})
  /\ UNCHANGED engine

\* return this.context
GetContext ==
  /\ Quiescent
  /\ last' = Call("getContext", "-", context, NULL, FALSE, {})
  /\ UNCHANGED engine

\* isInState written with = for ===: it assigns the state it was asked about.
IsInStateAssigning(state) ==
  /\ Quiescent
  /\ currentState' = state
  /\ last' = Call("isInState", "-", Undefined, state, TRUE, {})
  /\ UNCHANGED <<states, context, pc, stateHandler, result, error, thrown,
                 events, trace, steps, pulls, aux>>

\* return this.currentState === state
IsInState(state) ==
  /\ Quiescent
  /\ last' = Call("isInState", "-", Undefined, state, currentState = state, {})
  /\ UNCHANGED engine

\* return Object.keys(this.states)
GetAvailableStates ==
  /\ Quiescent
  /\ last' = Call("getAvailableStates", "-", Undefined, NULL, FALSE, DOMAIN states)
  /\ UNCHANGED engine

\* What the generator and its consumer's next() and return() do; each such
\* move ends the look the consumer had at the machine.
Moves ==
  \/ Run /\ last' = NoCall
  \/ PullStart /\ last' = NoCall
  \/ PullNext /\ last' = NoCall
  \/ PullThrow /\ last' = NoCall
  \/ OnEnterReturn /\ last' = NoCall
  \/ OnEnterThrow /\ last' = NoCall
  \/ ExecuteReturn /\ last' = NoCall
  \/ ExecuteThrow /\ last' = NoCall
  \/ OnExitReturn /\ last' = NoCall
  \/ OnExitThrow /\ last' = NoCall
  \/ OnErrorReturn /\ last' = NoCall
  \/ OnErrorThrow /\ last' = NoCall
  \/ Close /\ last' = NoCall

\* A consumer that runs, pulls, closes and calls the mutating operations.
Next ==
  \/ Moves
  \/ \E s \in StateIds :
       SetState(s) /\ last' = Call("setState", "-", Undefined, s, FALSE, {})
  \/ \E f \in {"identity", "next"} :
       UpdateContext(f) /\ last' = Call("updateContext", f, Undefined, NULL, FALSE, {})
  \/ \E c \in ResetContexts, s \in ResetStates :
       Reset(c, s) /\ last' = Call("reset", "-", c, s, FALSE, {})

\* A consumer that runs, pulls, closes and only reads the machine.
NextRead ==
  \/ Moves
  \/ GetCurrentState
  \/ GetContext
  \/ \E s \in StateIds : IsInState(s)
  \/ GetAvailableStates

\* A consumer that only runs and pulls, and handlers that never fail.
NextLive ==
  \/ Run /\ last' = NoCall
  \/ PullStart /\ last' = NoCall
  \/ PullNext /\ last' = NoCall
  \/ OnEnterReturn /\ last' = NoCall
  \/ ExecuteReturn /\ last' = NoCall
  \/ OnExitReturn /\ last' = NoCall

\* The consumer keeps pulling and every suspended handler completes.
LiveSpec == Init /\ [][NextLive]_vars /\ WF_vars(NextLive)

Spec == Init /\ [][Next]_vars

ReadSpec == Init /\ [][NextRead]_vars

\* ------------------------------------------------------- properties
Last(seq) == seq[Len(seq)]

\* b may directly follow a in the trace of a run
Follows(a, b) ==
  CASE a.op = "onEnter" ->
         /\ b.state = a.state
         /\ b.op \in {"execute", "onError"}
         /\ b.op = "execute" => b.ctx = a.ctx
    [] a.op = "execute" ->
         /\ b.state = a.state
         /\ b.op \in {"commit", "onError"}
         /\ b.op = "commit" => b.ctx = Execute(states[a.state], a.ctx).context
    [] a.op = "commit" ->
         /\ b.state = a.state
         /\ b.op = (IF states[a.state].onExit THEN "onExit" ELSE "emit")
         /\ b.ctx = a.ctx
         /\ b.event = states[a.state].event
    [] a.op = "onExit" ->
         /\ b.state = a.state
         /\ b.op \in {"emit", "onError"}
         /\ b.op = "emit" => b.event = a.event
    [] a.op = "emit" ->
         /\ b.state = a.state
         /\ b.op = "transition"
         /\ b.event = a.event
    [] a.op = "transition" ->
         /\ b.op \in {"assign", "onError"}
         /\ b.op = "onError" => b.state = a.state
         /\ b.op = "assign" =>
              b.state = Resolve(states[a.state].transition, a.event, a.ctx)
    [] a.op = "assign" ->
         /\ b.state = a.state
         /\ b.op = (IF states[a.state].onEnter THEN "onEnter" ELSE "execute")
    [] a.op = "onError" -> FALSE

\* the last thing the engine did is the one its position says
AtPosition ==
  /\ pc = "onEnter" /\ states[stateHandler].onEnter =>
       Last(trace).op = "onEnter" /\ Last(trace).state = stateHandler
  /\ pc = "execute" =>
       Last(trace).op = "execute" /\ Last(trace).state = stateHandler
  /\ pc = "onExit" =>
       /\ Last(trace).op = (IF states[stateHandler].onExit THEN "onExit" ELSE "commit")
       /\ Last(trace).state = stateHandler
  /\ pc = "yielded" =>
       Last(trace).op = "emit" /\ Last(trace).state = stateHandler
  /\ pc = "done" /\ trace # <<>> => Last(trace).op = "assign"

\* C1: in every step of a run the engine acts in the order onEnter (if
\* present), execute, commit of execute's context, onExit (if present),
\* emission of the event, transition, assignment of the state; each starts
\* when the previous one has completed, and everything between the onEnter
\* of a step and its assignment belongs to the handler of that step's state.
C1_LifecycleOrder ==
  /\ trace # <<>> =>
       trace[1].op = (IF states[trace[1].state].onEnter THEN "onEnter" ELSE "execute")
  /\ \A i \in 1..(Len(trace) - 1) : Follows(trace[i], trace[i + 1])
  /\ AtPosition

\* a second step has begun after a first one went through all seven actions
C1_Witness ==
  /\ pc = "onEnter"
  /\ Len(trace) = 8
  /\ trace[1].op = "onEnter" /\ trace[4].op = "onExit" /\ trace[7].op = "assign"
  /\ trace[8].op = "onEnter" /\ trace[8].state # trace[1].state

\* C2: once the event of a step is emitted, the engine calls no handler
\* function and writes neither the state nor the context before the
\* consumer's next pull; without a pull it makes no progress at all.
C2_BackPressure ==
  /\ [](pc = "yielded" => Last(trace).op = "emit" /\ Len(events) = pulls)
  /\ [][pc = "yielded" /\ pulls' = pulls =>
          /\ trace' = trace
          /\ events' = events
          /\ stateHandler' = stateHandler
          /\ pc' \in {"yielded", "closed"}
          /\ aux' = aux => (currentState' = currentState /\ context' = context)]_vars

\* the consumer holds an event and has called an auxiliary operation
\* meanwhile; the engine has not moved
C2_Witness ==
  /\ pc = "yielded"
  /\ aux = 1
  /\ pulls = 2
  /\ Last(trace).op = "emit"
  /\ currentState # stateHandler

\* the context committed by the step that entry i of the trace belongs to
CommittedBefore(i) ==
  LET j == CHOOSE k \in 1..i :
             /\ trace[k].op = "commit"
             /\ \A m \in (k + 1)..i : trace[m].op # "commit"
  IN  trace[j].ctx

\* C3: the context passed to onExit and the context passed to transition in
\* a step are both the context execute returned in that step, whatever the
\* consumer calls between its pulls.
C3_ContextOfStep ==
  \A i \in 1..Len(trace) :
     trace[i].op \in {"onExit", "transition"} => trace[i].ctx = CommittedBefore(i)

\* When the run is in its catch block or has failed: the index in the trace of
\* the call that failed, and the function that failed.
FailedAt == IF states[stateHandler].onError THEN Len(trace) - 1 ELSE Len(trace)
FailedOp == trace[FailedAt].op
HookFailure ==
  /\ pc \in {"onError", "failed"}
  /\ FailedOp \in {"onEnter", "execute", "onExit"}

\* the context committed when the failing call was made: the one the step
\* began with, or what execute returned when it is onExit that failed
CommittedAtFailure ==
  IF FailedOp = "onExit"
  THEN Execute(states[stateHandler], trace[FailedAt - 2].ctx).context
  ELSE trace[FailedAt].ctx

\* C4: when onEnter, execute or onExit of state A fails, A's onError (if
\* present) is called exactly once, with that failure and the context
\* committed at that point; the same failure then reaches the consumer (when
\* onError itself fails it is onError's failure that does, the case the
\* engine's design leaves open); the failing step emits no event; and
\* nothing is called afterwards in the run.
C4_FailureRouting ==
  HookFailure =>
    LET n     == Len(trace)
        onErr == {i \in 1..n : trace[i].op = "onError"}
    IN  /\ trace[FailedAt].state = stateHandler
        /\ IF states[stateHandler].onError
           THEN /\ onErr = {n}
                /\ trace[n].state = stateHandler
                /\ trace[n].err = error
                /\ trace[n].ctx = CommittedAtFailure
           ELSE onErr = {}
        /\ FailedOp = "onExit" =>
             /\ trace[FailedAt - 2].op = "execute"
             /\ trace[FailedAt].event = states[stateHandler].event
        /\ error \in Errors
        /\ pc = "failed" =>
             \/ thrown = [err |-> error, from |-> "catch"]
             \/ states[stateHandler].onError /\ thrown.from = "onError"
        /\ Len(events) = Cardinality({i \in 1..n : trace[i].op = "assign"})
        /\ \A i \in 1..n : trace[i].op = "emit" => i < FailedAt - 2

\* onExit of the second step failed, onError was called and has returned,
\* and the consumer has the failure
C4_Witness ==
  /\ pc = "failed"
  /\ FailedOp = "onExit"
  /\ states[stateHandler].onError
  /\ thrown = [err |-> error, from |-> "catch"]
  /\ Len(events) = 1
  /\ trace[FailedAt - 2].ctx # Last(trace).ctx

\* C5: when a run ends with a failure in state A, the state is still A and
\* the context is the one committed at the failure; the engine calls nothing
\* more by itself; a later run() starts a full step on A with that context.
C5_FailureLeavesFields ==
  /\ [](pc = "onError" /\ HookFailure =>
          currentState = stateHandler /\ context = CommittedAtFailure)
  /\ [][pc = "onError" =>
          /\ pc' = "failed"
          /\ trace' = trace
          /\ currentState' = currentState /\ context' = context]_vars
  /\ [][pc = "failed" =>
          /\ pc' \in {"failed", "start"}
          /\ trace' = trace /\ events' = events
          /\ pc' = "start" => currentState' = currentState /\ context' = context]_vars
  /\ [][/\ pc = "start" /\ pc' \notin {"start", "closed"}
        /\ thrown.from # "-" /\ currentState = stateHandler
        => /\ pc' = "onEnter"
           /\ stateHandler' = currentState
           /\ steps' = 1
           /\ context' = context
           /\ trace' = IF states[currentState].onEnter
                       THEN <<Did("onEnter", currentState, NoEvent, context, NoError)>>
                       ELSE <<>>]_vars
  /\ [][pc = "onEnter" /\ pc' = "execute" =>
          Last(trace') = Did("execute", stateHandler, NoEvent, context, NoError)]_vars

\* run() has been called again after execute failed in a second step, with
\* the fields as the failure left them
C5_Witness ==
  /\ pc = "start"
  /\ thrown.from = "catch"
  /\ FailedOp = "execute"
  /\ Len(events) = 1
  /\ currentState = stateHandler
  /\ context = CommittedAtFailure
  /\ aux = 0

\* C6: the consumer has received one event for every step whose onEnter,
\* execute and onExit completed, none for a failing step, and none without
\* a step.
C6_OneEventPerStep ==
  /\ pc \in {"onEnter", "execute", "onExit"} => Len(events) = steps - 1
  /\ pc \in {"yielded", "done"} => Len(events) = steps
  /\ pc \in {"onError", "failed"} =>
       Len(events) = IF FailedOp = "transition" THEN steps ELSE steps - 1
  /\ Len(events) = Cardinality({i \in 1..Len(trace) : trace[i].op = "emit"})
  /\ \A i \in 1..Len(events) :
       \E j \in 1..Len(trace) :
          /\ trace[j].op = "execute"
          /\ events[i] = states[trace[j].state].event
          /\ Cardinality({k \in 1..j : trace[k].op = "execute"}) = i

\* a run of three steps has completed normally
C6_Witness ==
  /\ pc = "done"
  /\ steps = 3
  /\ Len(events) = 3

\* C7 (as stated): the current state is null exactly when the machine has
\* terminated; in particular it is null whenever a run has ended normally.
\* (Stated for the runs that did not end on a falsy identifier, which C9 is
\* about.)
C7_NullWhenTerminated ==
  pc = "done" /\ aux = 0 /\ currentState # "" => currentState = NULL

\* C7 (amended): a null current state means the machine has terminated, a
\* run on it completes at once without a step; a run that ends normally
\* leaves the current state null or an identifier the loop guard rejects
\* (one without a handler, or a falsy one), so it may be non-null.
C7_NullImpliesTerminated ==
  /\ [][pc = "start" /\ currentState = NULL /\ pc' \notin {"start", "closed"} =>
          /\ pc' = "done"
          /\ trace' = <<>> /\ events' = <<>> /\ steps' = 0
          /\ currentState' = NULL /\ context' = context]_vars
  /\ [][pc # "done" /\ pc' = "done" =>
          \/ currentState' = NULL
          \/ currentState' \notin DOMAIN states
          \/ currentState' = ""]_vars

\* a run of two steps has ended normally on a state that has no handler
C7_Witness ==
  /\ pc = "done"
  /\ steps = 2
  /\ aux = 0
  /\ currentState = "success"
  /\ currentState \notin DOMAIN states

\* a run on the map of Scenario 1 that began in idle, which the consumer
\* pulled to its end without calling anything else
Scenario1Ran ==
  /\ \E h \in HookSets : states = Scenario1(h)
  /\ pc = "done"
  /\ aux = 0
  /\ trace # <<>>
  /\ trace[1].state = "idle"

\* C8 (as stated): Scenario 1 yields exactly the two events go and done,
\* and the current state is null afterwards.
C8_Scenario1TwoEvents ==
  Scenario1Ran => events = <<"go", "done">> /\ currentState = NULL

\* C8 (amended): Scenario 1 yields three events, go, done and the event of
\* success.execute, because success has a handler and its step runs too; the
\* current state is null afterwards.
C8_Scenario1ThreeEvents ==
  Scenario1Ran => events = <<"go", "done", "complete">> /\ currentState = NULL

C8_Witness ==
  /\ Scenario1Ran
  /\ Len(events) = 3
  /\ currentState = NULL

\* C9: the loop stops only when the current state is absent or has no
\* handler: a run on any identifier that has a handler, the falsy ones
\* included, executes a step.
C9_StopsOnlyOnAbsentOrUnmapped ==
  pc = "done" /\ aux = 0 => currentState = NULL \/ currentState \notin DOMAIN states

\* the states a step in state s may lead to
Successors(s) ==
  {Resolve(states[s].transition, states[s].event, c) : c \in Contexts}

\* every transition path from s reaches an absent or unmapped state within
\* n steps
RECURSIVE PathsEnd(_, _)
PathsEnd(s, n) ==
  IF s = NULL \/ s \notin DOMAIN states THEN TRUE
  ELSE IF n = 0 THEN FALSE
  ELSE \A t \in Successors(s) : PathsEnd(t, n - 1)

\* C10: on a map where every transition path from the state the run starts
\* in reaches an absent or unmapped state, with handlers that do not fail
\* and a consumer that keeps pulling, the run completes normally.
C10_RunCompletes ==
  [](pc = "start" /\ PathsEnd(currentState, Cardinality(DOMAIN states)) =>
       <>(pc = "done" /\ thrown = NoThrow /\ Len(events) <= Cardinality(DOMAIN states)))

\* a run of three steps has completed
C10_Witness ==
  /\ pc = "done"
  /\ steps = 3
  /\ pulls = 4
  /\ PathsEnd("idle", Cardinality(DOMAIN states))

\* C11: the constructor validates nothing. When the current state has no
\* handler in the map at the first next() of a run, that call completes the
\* run at once: no event, no failure, no handler called, and the current
\* state and the context are left as they were.
C11_UnmappedInitialState ==
  [][pc = "start" /\ currentState \notin DOMAIN states
       /\ pc' \notin {"start", "closed"}
     => /\ pc' = "done"
        /\ events' = <<>>
        /\ trace' = <<>>
        /\ thrown' = NoThrow
        /\ steps' = 0
        /\ currentState' = currentState
        /\ context' = context]_vars

\* a freshly constructed machine on "success", which the Quick Start map does
\* not define, after its first and only next()
C11_Witness ==
  /\ pc = "done" /\ pulls = 1 /\ steps = 0 /\ aux = 0
  /\ currentState = "success" /\ currentState \notin DOMAIN states
  /\ events = <<>> /\ trace = <<>> /\ thrown = NoThrow

\* No handler function is called by a step: the trace of the run, the
\* generator and everything the consumer received are as they were.
NoHandlerInvoked ==
  UNCHANGED <<states, pc, stateHandler, result, error, thrown, events, trace,
              steps, pulls>>

\* C12: reset(newContext, newState) replaces exactly the fields given: every
\* context value passed becomes the context, every state passed becomes the
\* current state, an argument not given leaves its field as it was, and no
\* handler function is called.
C12_ResetReplacesGiven ==
  [][last'.op = "reset" /\ aux' = aux + 1
     => /\ context' = IF last'.ctx = Undefined THEN context ELSE last'.ctx
        /\ currentState' = IF last'.state = NULL THEN currentState ELSE last'.state
        /\ NoHandlerInvoked]_vars

\* C13: setState(s) sets the current state to s and leaves the context;
\* updateContext(f) sets the context to f(context) and leaves the current
\* state; neither calls a handler function (no onExit of the state left, no
\* onEnter of the state set, nothing else).
C13_SetStateUpdateContext ==
  [][/\ last'.op = "setState" /\ aux' = aux + 1
        => /\ currentState' = last'.state
           /\ context' = context
           /\ NoHandlerInvoked
     /\ last'.op = "updateContext" /\ aux' = aux + 1
        => /\ context' = Updater(last'.fn, context)
           /\ currentState' = currentState
           /\ NoHandlerInvoked]_vars

\* setState("loading") while the consumer holds the event of "idle", in a map
\* where idle has an onExit hook and loading an onEnter hook
C13_Witness ==
  /\ last.op = "setState" /\ last.state = "loading" /\ currentState = "loading"
  /\ pc = "yielded" /\ stateHandler = "idle"
  /\ states["idle"].onExit /\ "loading" \in DOMAIN states /\ states["loading"].onEnter
  /\ Last(trace).op = "emit"

Getters == {"getCurrentState", "getContext", "isInState", "getAvailableStates"}

\* C14: between two pulls, calls of getCurrentState, getContext, isInState and
\* getAvailableStates change nothing of the machine or of the run (so the rest
\* of the run is what it would have been), and each returns what the fields
\* hold, the same at every call: isInState(s) is true exactly when the current
\* state is s.
C14_ReadsAreStable ==
  /\ [](/\ last.op = "getCurrentState" => last.state = currentState
        /\ last.op = "getContext" => last.ctx = context
        /\ last.op = "isInState" => (last.bool <=> currentState = last.state)
        /\ last.op = "getAvailableStates" => last.keys = DOMAIN states)
  /\ [][last'.op \in Getters => UNCHANGED engine]_vars

\* isInState("idle") answered true while the consumer holds the event of idle
C14_Witness ==
  /\ pc = "yielded" /\ stateHandler = "idle" /\ currentState = "idle"
  /\ last.op = "isInState" /\ last.state = "idle" /\ last.bool

\* C15: a run in which the consumer calls updateContext with the identity
\* function between two pulls goes on as the run without that call. The two
\* runs are compared through the state the call leaves: the call changes
\* nothing that the generator, the handlers or the getters read (every
\* variable but the count of calls made and the record of the call itself),
\* so from there the same events, states and contexts follow.
C15_IdentityUpdateIsInvisible ==
  [][last'.op = "updateContext" /\ last'.fn = "identity" /\ aux' = aux + 1
     => UNCHANGED <<states, context, currentState, pc, stateHandler, result,
                    error, thrown, events, trace, steps, pulls>>]_vars

\* updateContext(c => c) called while the consumer holds the first event
C15_Witness ==
  /\ last.op = "updateContext" /\ last.fn = "identity"
  /\ pc = "yielded" /\ Len(events) = 1 /\ context = result.context

\* the conditions of transition t that hold for (event, ctx), by position
Holding(t, event, ctx) ==
  {j \in 1..Len(t.conditions) : When(t.conditions[j].when, event, ctx)}

\* what the claim says a conditional transition returns
FirstHolding(t, event, ctx) ==
  LET m == Holding(t, event, ctx)
  IN  IF m = {} THEN t.target
      ELSE t.conditions[CHOOSE j \in m : \A k \in m : j <= k].then

\* C16: a transition built by conditionalTransition returns the target of the
\* first condition, in list order, that holds for (event, context), and the
\* declared default, or null when none was declared, when no condition holds;
\* so on a state whose transition is a list of which no condition holds, with
\* no default, the pull after its event completes the run normally with no
\* further event.
C16_FirstMatchWins ==
  /\ [](\A i \in 1..(Len(trace) - 1) :
          /\ trace[i].op = "transition"
          /\ trace[i + 1].op = "assign"
          /\ states[trace[i].state].transition.kind = "conditional"
          => trace[i + 1].state =
               FirstHolding(states[trace[i].state].transition, trace[i].event, trace[i].ctx))
  /\ [][/\ pc = "yielded" /\ pulls' = pulls + 1 /\ pc' # "onError"
        /\ states[stateHandler].transition.kind = "conditional"
        /\ states[stateHandler].transition.target = NULL
        /\ Holding(states[stateHandler].transition, result.event, context) = {}
        => /\ pc' = "done"
           /\ currentState' = NULL
           /\ events' = events
           /\ thrown' = NoThrow]_vars

\* idle, where three conditions held and the first won, then loading, where
\* none held and there is no default: one event from loading, and the run is over
C16_Witness ==
  /\ pc = "done" /\ thrown = NoThrow /\ aux = 0
  /\ states["idle"].transition.kind = "conditional"
  /\ events = <<"go", "done">>
  /\ stateHandler = "loading" /\ currentState = NULL
  /\ Cardinality(Holding(states["idle"].transition, "go", 1)) = 3
  /\ Holding(states["loading"].transition, "done", context) = {}

\* the run is in its catch block, or has failed, because a transition threw
TransitionFailure ==
  /\ pc \in {"onError", "failed"}
  /\ FailedOp = "transition"

\* C17: a failure raised by the transition function of state A, after A's
\* event was emitted and the consumer pulled again, is routed like the other
\* failures: A's onError (if present) is called once with that failure and
\* the context the machine holds, the same failure then reaches the consumer,
\* and the engine assigns no state: the current state is as it was, A unless
\* the consumer has set another.
C17_TransitionFailureRouting ==
  /\ [](TransitionFailure =>
          LET n     == Len(trace)
              onErr == {i \in 1..n : trace[i].op = "onError"}
          IN  /\ trace[FailedAt].state = stateHandler
              /\ trace[FailedAt - 1].op = "emit"
              /\ trace[FailedAt - 1].event = trace[FailedAt].event
              /\ IF states[stateHandler].onError
                 THEN /\ onErr = {n}
                      /\ trace[n].state = stateHandler
                      /\ trace[n].err = error
                      /\ trace[n].ctx = trace[FailedAt].ctx
                 ELSE onErr = {}
              /\ Cardinality({i \in 1..n : trace[i].op = "assign"}) = Len(events) - 1
              /\ pc = "failed" =>
                   \/ thrown = [err |-> error, from |-> "catch"]
                   \/ states[stateHandler].onError /\ thrown.from = "onError"
              /\ aux = 0 =>
                   /\ currentState = stateHandler
                   /\ context = result.context
                   /\ trace[FailedAt].ctx = result.context)
  /\ [][pc = "yielded" /\ pulls' = pulls + 1 /\ pc' \notin {"onEnter", "done"}
        => /\ pc' = "onError"
           /\ error' \in Errors
           /\ currentState' = currentState
           /\ context' = context
           /\ events' = events
           /\ trace' = trace \o
                IF states[stateHandler].onError
                THEN <<Did("transition", stateHandler, result.event, context, NoError),
                       Did("onError", stateHandler, NoEvent, context, error')>>
                ELSE <<Did("transition", stateHandler, result.event, context, NoError)>>]_vars

\* the transition of the second step threw, onError was called and has
\* returned, and the consumer has the failure; the state is still that step's
C17_Witness ==
  /\ pc = "failed" /\ TransitionFailure /\ aux = 0
  /\ states[stateHandler].onError
  /\ thrown = [err |-> error, from |-> "catch"]
  /\ Len(events) = 2
  /\ currentState = stateHandler

\* what the claim says an event-keyed transition returns: the state mapped to
\* the event's type when the map has that key, null when it has not
Mapped(eventMap, event) ==
  IF \E p \in eventMap : p[1] = event
  THEN (CHOOSE p \in eventMap : p[1] = event)[2]
  ELSE NULL

\* C18: a transition built by eventBasedTransition(eventMap) returns the state
\* mapped to the event's type whenever the map has that key, whatever the
\* state identifier (0 and the empty string included), and null exactly when
\* the key is missing.
C18_EventMapLookup ==
  \A i \in 1..(Len(trace) - 1) :
     /\ trace[i].op = "transition"
     /\ trace[i + 1].op = "assign"
     /\ states[trace[i].state].transition.kind = "eventBased"
     => trace[i + 1].state = Mapped(states[trace[i].state].transition.eventMap, trace[i].event)

\* C19: while the consumer holds an event (it has received it and not pulled
\* again), the transition of that step has not been evaluated: the current
\* state is still the state whose handler produced the event, the context is
\* the one that step's execute returned, and getCurrentState() and
\* getContext() return these; so after the last event of a run the current
\* state is non-null until the pull that completes the run.
C19_HeldEventSeesItsState ==
  /\ [](pc = "yielded" =>
          LET n == Len(trace)
              x == CHOOSE i \in 1..n :
                     /\ trace[i].op = "execute"
                     /\ \A j \in (i + 1)..n : trace[j].op # "execute"
          IN  /\ trace[n].op = "emit"
              /\ trace[n].state = stateHandler
              /\ trace[n].event = Last(events)
              /\ trace[x].state = stateHandler
              /\ currentState = stateHandler
              /\ currentState # NULL
              /\ context = Execute(states[stateHandler], trace[x].ctx).context
              /\ last.op = "getCurrentState" => last.state = stateHandler
              /\ last.op = "getContext" =>
                   last.ctx = Execute(states[stateHandler], trace[x].ctx).context)
  /\ [][pc = "yielded" /\ pc' = "done"
        => currentState # NULL /\ pulls' = pulls + 1 /\ events' = events]_vars

\* the consumer holds the last event of a Quick Start run, produced by
\* loading, and getCurrentState() has just returned "loading"
C19_Witness ==
  /\ pc = "yielded" /\ stateHandler = "loading"
  /\ events = <<"go", "done">>
  /\ Resolve(states["loading"].transition, "done", context) \notin DOMAIN states
  /\ last.op = "getCurrentState" /\ last.state = "loading"

\* a run was closed while the consumer held an event, and no step has begun
\* since: the last thing the engine did is that emit
ClosedAtEvent ==
  /\ pc \in {"closed", "start"}
  /\ trace # <<>>
  /\ Last(trace).op = "emit"

\* C20: when the consumer closes the sequence right after an event instead of
\* pulling again, the transition of that step is never evaluated and no
\* onError is called; the current state stays the state that produced the
\* event and the context the one that step committed; a later run() then
\* begins a full step on that same state, with that context, and a step that
\* gets through hands over that state's event again.
C20_EarlyStop ==
  /\ [][pc = "yielded" /\ pc' = "closed"
        => UNCHANGED <<states, context, currentState, stateHandler, result,
                       error, thrown, events, trace, steps, pulls, aux>>]_vars
  /\ [][pc = "closed" => pc' \in {"closed", "start"} /\ trace' = trace]_vars
  /\ [](ClosedAtEvent /\ aux = 0 =>
          /\ currentState = stateHandler
          /\ currentState \in DOMAIN states
          /\ context = result.context
          /\ thrown = NoThrow
          /\ \A i \in 1..Len(trace) : trace[i].op # "onError")
  /\ [][ClosedAtEvent /\ pc = "start" /\ aux = 0 /\ pc' \notin {"start", "closed"}
        => /\ pc' = "onEnter"
           /\ stateHandler' = stateHandler
           /\ currentState' = stateHandler
           /\ context' = result.context
           /\ trace' = IF states[stateHandler].onEnter
                       THEN <<Did("onEnter", stateHandler, NoEvent, result.context, NoError)>>
                       ELSE <<>>
           /\ events' = <<>>]_vars
  /\ [][pc = "onEnter" /\ pc' = "execute"
        => /\ Last(trace').op = "execute" /\ Last(trace').ctx = context
           /\ result' = Execute(states[stateHandler], context)]_vars
  /\ [][pc = "onExit" /\ pc' = "yielded"
        => events' = Append(events, states[stateHandler].event)]_vars

\* the consumer closed the run while holding the first event, of a state
\* whose execute changed the context, and has called run() again
C20_Witness ==
  /\ ClosedAtEvent /\ pc = "start" /\ aux = 0
  /\ Len(events) = 1
  /\ states[stateHandler].add = 1
  /\ states[stateHandler].onEnter /\ states[stateHandler].onError

\* the consumer's latest call, made since the generator last moved, forced
\* the current state: setState(s), or reset with a state given
Forced ==
  \/ last.op = "setState"
  \/ last.op = "reset" /\ last.state # NULL

\* C21: a state forced with setState(s) or reset(_, s) while the generator is
\* suspended at the hand-off of an event does not decide the next step: the
\* next pull (when the transition returns) assigns to the current state what
\* the transition of the handler that produced the event returns, so s is
\* lost and its handler runs next only if the transition returns s. A state
\* forced while no run is suspended at a hand-off stays until the first pull
\* of the next run, which begins its step on it.
C21_ForcedStateAtHandOff ==
  /\ [][pc = "yielded" /\ Forced /\ pulls' = pulls + 1 /\ pc' # "onError"
        => LET to == Resolve(states[stateHandler].transition, result.event, context)
           IN  /\ currentState = last.state
               /\ currentState' = to
               /\ pc' = "onEnter" => stateHandler' = to
               /\ pc' = "onEnter" /\ stateHandler' = last.state => to = last.state
               /\ pc' \in {"onEnter", "done"}]_vars
  /\ [][pc' = "start" /\ pc # "start"
        => currentState' = currentState]_vars
  /\ [][pc = "start" /\ pc' \notin {"start", "closed"}
        => /\ currentState' = currentState
           /\ pc' = IF LoopCond(currentState) THEN "onEnter" ELSE "done"
           /\ pc' = "onEnter" => stateHandler' = currentState]_vars
  /\ [][pc = "start" /\ Forced /\ pc' \notin {"start", "closed"}
        => currentState' = last.state]_vars

\* the consumer holds the event of idle, whose transition leads to loading,
\* and has just forced the state to "success", which has a handler
C21_Witness ==
  /\ pc = "yielded" /\ stateHandler = "idle" /\ Len(events) = 1
  /\ last.op = "setState" /\ last.state = "success" /\ currentState = "success"
  /\ "success" \in DOMAIN states
  /\ Resolve(states["idle"].transition, result.event, context) = "loading"

\* the run ended with the failure that onError raised
SecondaryFailure ==
  /\ pc = "failed"
  /\ thrown.from = "onError"

\* C22: when onError itself fails while handling the failure of a step, the
\* consumer receives onError's failure and not the original one, onError is
\* not called a second time, the run halts, and the current state and the
\* context stay as they were when the original failure was caught.
C22_OnErrorFails ==
  /\ [](SecondaryFailure =>
          LET n     == Len(trace)
              onErr == {i \in 1..n : trace[i].op = "onError"}
          IN  /\ states[stateHandler].onError
              /\ onErr = {n}
              /\ trace[n].state = stateHandler
              /\ trace[n].err = error
              /\ thrown.err \in Errors
              /\ thrown.err # error
              /\ aux = 0 =>
                   /\ currentState = stateHandler
                   /\ context = trace[n].ctx
                   /\ FailedOp \in {"onEnter", "execute", "onExit"} =>
                        context = CommittedAtFailure)
  /\ [][pc = "onError" /\ thrown'.from = "onError"
        => /\ pc' = "failed"
           /\ trace' = trace
           /\ events' = events
           /\ currentState' = currentState
           /\ context' = context]_vars
  /\ [][SecondaryFailure
        => /\ pc' \in {"failed", "start"}
           /\ trace' = trace
           /\ events' = events
           /\ thrown' = thrown]_vars

\* execute of the second step failed with one error, its onError failed with
\* another, and that other one is what the consumer received
C22_Witness ==
  /\ SecondaryFailure /\ aux = 0
  /\ FailedOp = "execute"
  /\ Len(events) = 1
  /\ thrown.err # error
  /\ Last(trace).err = error

====
